---- MODULE Spec2Model ----
(***************************************************************************)
(* A model of src/app.py (RaiDaeng FarmOS): the Farmer / Plot / Planting   *)
(* tables, their create / update / delete handlers, and the handlers that  *)
(* derive the harvest plan: dashboard, harvest_series, plots_page,         *)
(* plantings_page and export_harvest_csv.                                  *)
(*                                                                         *)
(* Representation.                                                         *)
(*  - A str is a sequence of code points (<<65, 110, 110>> is "Ann"), so   *)
(*    that lower(), strip(), "in", "==", "<", join and the f-string        *)
(*    formats are computed, not assumed.                                   *)
(*  - area_rai and yield_ton_per_rai are decimals with two places, held as *)
(*    a number of hundredths; their product is a number of ten-thousandths *)
(*    (tt), and a value rounded to 3 decimals is a number of thousandths   *)
(*    (milli).  Arithmetic is exact; the binary error of Python floats is  *)
(*    not modelled, and the inputs are chosen so that no value lies        *)
(*    exactly half way between two thousandths.                            *)
(*  - An Optional value (dict.get, session.get) is <<>> for None and <<x>> *)
(*    for x.                                                               *)
(*  - A table is the sequence of its rows in ascending id (rowid) order,   *)
(*    the order in which SQLite returns select(T).all().  SQLite does not  *)
(*    enforce the declared foreign keys (no PRAGMA foreign_keys), so a     *)
(*    Plot may name a Farmer, and a Planting a Plot, that does not exist.  *)
(*  - Of a row only the columns the harvest plan reads are kept: Farmer    *)
(*    id, code, name; Plot id, farmer_id, plot_name, area_rai; Planting    *)
(*    id, plot_id, variety, plant_date, days_to_harvest,                   *)
(*    yield_ton_per_rai, status.  Login, the form pages and farmers_page   *)
(*    read or write none of what is modelled and are left out.             *)
(*  - Dates stay inside date.min .. date.max: the OverflowError of         *)
(*    plant_date + timedelta beyond year 9999 is outside the inputs.       *)
(***************************************************************************)
EXTENDS Integers, Sequences, FiniteSets, TLC

VARIABLES farmers, plots, plantings, resp, probe

vars == <<farmers, plots, plantings, resp, probe>>

(***************************************************************************)
(* Bounds.                                                                 *)
(***************************************************************************)
\* largest Farmer id / Plot id / Planting id the CRUD handlers hand out in Spec
MaxFarmers == 1
MaxPlots == 1
MaxPlantings == 2
\* largest number of Plantings in a snapshot drawn by InitQuery
MaxRows == 2
\* largest number of Plantings in a snapshot drawn by InitTotals
MaxSnapshot == 4

(***************************************************************************)
(* Python str operations.                                                  *)
(***************************************************************************)
\* str.lower() on the code points used here: A-Z map to a-z
Lower(s) == [i \in 1..Len(s) |-> IF s[i] \in 65..90 THEN s[i] + 32 ELSE s[i]]

\* the whitespace str.strip() removes: tab, LF, VT, FF, CR, space
Whitespace == {9, 10, 11, 12, 13, 32}

\* str.strip()
Strip(s) ==
    LET keep == {i \in 1..Len(s) : s[i] \notin Whitespace}
    IN  IF keep = {} THEN <<>>
        ELSE LET lo == CHOOSE i \in keep : \A j \in keep : i <= j
                 hi == CHOOSE i \in keep : \A j \in keep : j <= i
             IN  SubSeq(s, lo, hi)

\* needle in hay
Contains(needle, hay) ==
    \E i \in 0..(Len(hay) - Len(needle)) : SubSeq(hay, i + 1, i + Len(needle)) = needle

\* a < b for str: code point order, a proper prefix is smaller
StrLess(a, b) ==
    \E i \in 1..Len(b) :
        /\ \A j \in 1..(i - 1) : j <= Len(a) /\ a[j] = b[j]
        /\ i > Len(a) \/ a[i] < b[i]

RECURSIVE DecStr(_)
\* the decimal digits of n >= 0 (format "d")
DecStr(n) == IF n < 10 THEN <<48 + n>> ELSE DecStr(n \div 10) \o <<48 + (n % 10)>>

RECURSIVE ZeroPad(_, _)
\* the 0w part of a format: pad on the left with "0" up to width w, never cut
ZeroPad(s, w) == IF Len(s) >= w THEN s ELSE ZeroPad(<<48>> \o s, w)

RECURSIVE Join(_, _)
\* sep.join(parts)
Join(sep, parts) ==
    IF parts = <<>> THEN <<>>
    ELSE IF Len(parts) = 1 THEN parts[1]
    ELSE parts[1] \o sep \o Join(sep, Tail(parts))

(***************************************************************************)
(* datetime.date                                                           *)
(***************************************************************************)
IsLeap(y) == (y % 4 = 0 /\ y % 100 # 0) \/ y % 400 = 0

DaysInMonth(y, m) ==
    IF m = 2 THEN (IF IsLeap(y) THEN 29 ELSE 28)
    ELSE IF m \in {4, 6, 9, 11} THEN 30 ELSE 31

RECURSIVE AddDays(_, _)
\* d + timedelta(days=n), n >= 0
AddDays(d, n) ==
    IF d.day + n <= DaysInMonth(d.year, d.month)
    THEN [d EXCEPT !.day = d.day + n]
    ELSE LET used == DaysInMonth(d.year, d.month) - d.day + 1
             nxt  == IF d.month = 12
                     THEN [year |-> d.year + 1, month |-> 1, day |-> 1]
                     ELSE [year |-> d.year, month |-> d.month + 1, day |-> 1]
         IN  AddDays(nxt, n - used)

\* Planting.harvest_date
harvest_date(pl) == AddDays(pl.plant_date, pl.days_to_harvest)

\* month_key without the zero padding (a faulty variant of month_key)
month_key_unpadded(d) == DecStr(d.year) \o <<45>> \o DecStr(d.month)

\* month_key(d): f"{d.year:04d}-{d.month:02d}"
month_key(d) == ZeroPad(DecStr(d.year), 4) \o <<45>> \o ZeroPad(DecStr(d.month), 2)

\* date.isoformat()
isoformat(d) ==
    ZeroPad(DecStr(d.year), 4) \o <<45>> \o ZeroPad(DecStr(d.month), 2)
        \o <<45>> \o ZeroPad(DecStr(d.day), 2)

(***************************************************************************)
(* Numbers.                                                                *)
(***************************************************************************)
\* round(x, 3) of x ten-thousandths, in thousandths; a tie goes to the even one
Round3(tt) ==
    LET q == tt \div 10
        r == tt % 10
    IN  IF r < 5 THEN q
        ELSE IF r > 5 THEN q + 1
        ELSE IF q % 2 = 0 THEN q ELSE q + 1

RECURSIVE StripZeros(_)
\* the fraction digits of a float's repr: trailing zeros dropped, one digit kept
StripZeros(s) ==
    IF Len(s) > 1 /\ s[Len(s)] = 48 THEN StripZeros(SubSeq(s, 1, Len(s) - 1)) ELSE s

\* str() of the float n / 10^places, n >= 0 (repr: "3.0", "0.02", "4.25")
FloatStr(n, places) ==
    LET unit == 10 ^ places
    IN  DecStr(n \div unit) \o <<46>> \o StripZeros(ZeroPad(DecStr(n % unit), places))

(***************************************************************************)
(* The request inputs the handlers are driven with.                        *)
(***************************************************************************)
\* form fields of farmer_create / farmer_update, as posted (before strip)
FarmerForms ==
    { [code |-> <<82, 68, 49>>,         name |-> <<65, 110, 110>>],        \* "RD1", "Ann"
      [code |-> <<32, 114, 100, 50>>,   name |-> <<66, 111, 44, 98, 32>>] } \* " rd2", "Bo,b "

FarmerIds == 1..(MaxFarmers + 1)

\* form fields of plot_create / plot_update; area_rai in hundredths
PlotForms ==
    { [farmer_id |-> f, plot_name |-> <<78, 111, 114, 116, 104>>, area_rai |-> 200]   \* "North", 2.0
          : f \in FarmerIds }
    \cup { [farmer_id |-> 1, plot_name |-> <<32, 101, 97, 115, 116>>, area_rai |-> 2] } \* " east", 0.02

PlotIds == 1..(MaxPlots + 1)

\* form fields of planting_create / planting_update; plant_date as parsed by
\* date(y, m, d) from a well-formed YYYY-MM-DD, yield_ton_per_rai in hundredths
PlantingForms ==
    { [plot_id |-> 1, variety |-> <<83, 105, 108, 107>>, status |-> <<100, 111, 110, 101>>,  \* "Silk", "done"
       plant_date |-> [year |-> 2024, month |-> 1, day |-> 10], days_to_harvest |-> 120,
       yield_ton_per_rai |-> y] : y \in {150, 2} }
    \cup
    { [plot_id |-> MaxPlots + 1, variety |-> <<98, 101, 110, 105, 32>>,                       \* "beni "
       status |-> <<80, 108, 97, 110>>,                                                       \* "Plan"
       plant_date |-> [year |-> 2024, month |-> 2, day |-> 15], days_to_harvest |-> 90,
       yield_ton_per_rai |-> 150] }

PlantingIds == 1..(MaxPlantings + 1)

\* the q parameter of plots_page and plantings_page
Queries ==
    { <<>>, <<32>>,                  \* "", " "
      <<32, 65, 78, 32>>,            \* " AN "   (farmer name)
      <<114, 100>>,                  \* "rd"     (farmer code)
      <<110, 111, 114>>,             \* "nor"    (plot name)
      <<83, 105, 108, 107>>,         \* "Silk"   (variety)
      <<112, 108, 97>> }             \* "pla"    (status)

\* the month parameter of plantings_page
Months ==
    { <<>>,
      <<50, 48, 50, 52, 45, 48, 53>>,   \* "2024-05"
      <<50, 48, 50, 52, 45, 48, 54>>,   \* "2024-06"
      <<50, 48, 50, 52, 45, 48>>,       \* "2024-0"  (a prefix of both)
      <<50, 48, 50, 52, 45, 53>> }      \* "2024-5"  (not zero padded)

\* the parameters Spec drives the pages with, among its other requests
SpecQueries == { <<>>, <<32, 65, 78, 32>>, <<110, 111, 114>> }

SpecMonths == { <<>>, <<50, 48, 50, 52, 45, 48, 53>> }

(***************************************************************************)
(* The tables and the session.                                             *)
(***************************************************************************)
Range(seq) == {seq[i] : i \in 1..Len(seq)}

\* session.get(T, id): <<row>> or <<>> (None)
Get(table, id) ==
    IF \E i \in 1..Len(table) : table[i].id = id
    THEN <<table[CHOOSE i \in 1..Len(table) : table[i].id = id]>>
    ELSE <<>>

\* the id SQLite gives a row inserted with id None: the largest rowid plus one
NextId(table) == IF table = <<>> THEN 1 ELSE table[Len(table)].id + 1

\* session.delete(row); session.commit()
Delete(table, id) == SelectSeq(table, LAMBDA r : r.id # id)

\* session.add(row); session.commit() of a loaded row whose fields were assigned
Update(table, row) == [i \in 1..Len(table) |-> IF table[i].id = row.id THEN row ELSE table[i]]

\* what a handler returns; the fields an operation does not produce stay empty
NoResp ==
    [op |-> "none", raised |-> "", location |-> "", q |-> <<>>, month |-> <<>>,
     rows |-> <<>>, total_tons |-> 0, series |-> <<>>, kpi |-> <<>>, csv |-> <<>>]

Redirect(op, to) == [NoResp EXCEPT !.op = op, !.location = to]

Raise(op, exc) == [NoResp EXCEPT !.op = op, !.raised = exc]

Init ==
    /\ farmers = <<>>
    /\ plots = <<>>
    /\ plantings = <<>>
    /\ resp = NoResp
    /\ probe = <<>>

(***************************************************************************)
(* Farmers                                                                 *)
(***************************************************************************)
\* the UNIQUE index on farmer.code
CodeTaken(code, exceptId) == \E i \in 1..Len(farmers) : farmers[i].code = code /\ farmers[i].id # exceptId

FarmerRow(id, form) == [id |-> id, code |-> Strip(form.code), name |-> Strip(form.name)]

farmer_create(form) ==
    /\ NextId(farmers) <= MaxFarmers
    /\ IF CodeTaken(Strip(form.code), 0)
       THEN /\ resp' = Raise("farmer_create", "IntegrityError")
            /\ UNCHANGED farmers
       ELSE /\ farmers' = Append(farmers, FarmerRow(NextId(farmers), form))
            /\ resp' = Redirect("farmer_create", "/farmers")
    /\ UNCHANGED <<plots, plantings, probe>>

farmer_update(farmer_id, form) ==
    /\ LET row == Get(farmers, farmer_id)
       IN  IF row = <<>>
           THEN /\ resp' = Raise("farmer_update", "AttributeError")
                /\ UNCHANGED farmers
           ELSE IF CodeTaken(Strip(form.code), farmer_id)
           THEN /\ resp' = Raise("farmer_update", "IntegrityError")
                /\ UNCHANGED farmers
           ELSE /\ farmers' = Update(farmers, FarmerRow(farmer_id, form))
                /\ resp' = Redirect("farmer_update", "/farmers")
    /\ UNCHANGED <<plots, plantings, probe>>

\* farmer_delete removing the Plots of the Farmer as well (a faulty variant of farmer_delete)
farmer_delete_cascade(farmer_id) ==
    /\ farmers' = IF Get(farmers, farmer_id) # <<>> THEN Delete(farmers, farmer_id) ELSE farmers
    /\ plots' = IF Get(farmers, farmer_id) # <<>>
                THEN SelectSeq(plots, LAMBDA p : p.farmer_id # farmer_id)
                ELSE plots
    /\ resp' = Redirect("farmer_delete", "/farmers")
    /\ UNCHANGED <<plantings, probe>>

farmer_delete(farmer_id) ==
    /\ farmers' = IF Get(farmers, farmer_id) # <<>> THEN Delete(farmers, farmer_id) ELSE farmers
    /\ resp' = Redirect("farmer_delete", "/farmers")
    /\ UNCHANGED <<plots, plantings, probe>>

(***************************************************************************)
(* Plots                                                                   *)
(***************************************************************************)
PlotRow(id, form) ==
    [id |-> id, farmer_id |-> form.farmer_id, plot_name |-> Strip(form.plot_name),
     area_rai |-> form.area_rai]

plot_create(form) ==
    /\ NextId(plots) <= MaxPlots
    /\ plots' = Append(plots, PlotRow(NextId(plots), form))
    /\ resp' = Redirect("plot_create", "/plots")
    /\ UNCHANGED <<farmers, plantings, probe>>

plot_update(plot_id, form) ==
    /\ LET row == Get(plots, plot_id)
       IN  IF row = <<>>
           THEN /\ resp' = Raise("plot_update", "AttributeError")
                /\ UNCHANGED plots
           ELSE /\ plots' = Update(plots, PlotRow(plot_id, form))
                /\ resp' = Redirect("plot_update", "/plots")
    /\ UNCHANGED <<farmers, plantings, probe>>

plot_delete(plot_id) ==
    /\ plots' = IF Get(plots, plot_id) # <<>> THEN Delete(plots, plot_id) ELSE plots
    /\ resp' = Redirect("plot_delete", "/plots")
    /\ UNCHANGED <<farmers, plantings, probe>>

(***************************************************************************)
(* Plantings                                                               *)
(***************************************************************************)
PlantingRow(id, form) ==
    [id |-> id, plot_id |-> form.plot_id, variety |-> Strip(form.variety),
     plant_date |-> form.plant_date, days_to_harvest |-> form.days_to_harvest,
     yield_ton_per_rai |-> form.yield_ton_per_rai, status |-> Strip(form.status)]

planting_create(form) ==
    /\ NextId(plantings) <= MaxPlantings
    /\ plantings' = Append(plantings, PlantingRow(NextId(plantings), form))
    /\ resp' = Redirect("planting_create", "/plantings")
    /\ UNCHANGED <<farmers, plots, probe>>

planting_update(planting_id, form) ==
    /\ LET row == Get(plantings, planting_id)
       IN  IF row = <<>>
           THEN /\ resp' = Raise("planting_update", "AttributeError")
                /\ UNCHANGED plantings
           ELSE /\ plantings' = Update(plantings, PlantingRow(planting_id, form))
                /\ resp' = Redirect("planting_update", "/plantings")
    /\ UNCHANGED <<farmers, plots, probe>>

planting_delete(planting_id) ==
    /\ plantings' = IF Get(plantings, planting_id) # <<>> THEN Delete(plantings, planting_id)
                    ELSE plantings
    /\ resp' = Redirect("planting_delete", "/plantings")
    /\ UNCHANGED <<farmers, plots, probe>>

(***************************************************************************)
(* The harvest plan: join, yield, month buckets.                           *)
(***************************************************************************)
\* the yield with a missing plot counted as an area of 1.0 (a faulty variant of tons_of)
tons_of_unit_area(ps, pl) ==
    LET p == Get(ps, pl.plot_id)
    IN  (IF p # <<>> THEN p[1].area_rai ELSE 100) * pl.yield_ton_per_rai

\* plot_area.get(pl.plot_id, 0.0) * pl.yield_ton_per_rai, in ten-thousandths
tons_of(ps, pl) ==
    LET p == Get(ps, pl.plot_id)
    IN  (IF p # <<>> THEN p[1].area_rai ELSE 0) * pl.yield_ton_per_rai

\* the loop body with the new value stored instead of added (a faulty variant of by_month_add)
by_month_put(by_month, hk, tons) ==
    [k \in (DOMAIN by_month) \cup {hk} |-> IF k = hk THEN tons ELSE by_month[k]]

\* by_month[hk] = by_month.get(hk, 0.0) + tons
by_month_add(by_month, hk, tons) ==
    [k \in (DOMAIN by_month) \cup {hk} |->
        IF k = hk THEN (IF hk \in DOMAIN by_month THEN by_month[hk] ELSE 0) + tons
        ELSE by_month[k]]

RECURSIVE by_month_of(_, _, _)
\* by_month after the loop has run over the first n plantings
by_month_of(ps, pls, n) ==
    IF n = 0 THEN <<>>
    ELSE by_month_add(by_month_of(ps, pls, n - 1), month_key(harvest_date(pls[n])),
                      tons_of(ps, pls[n]))

RECURSIVE sorted_reverse(_)
\* the keys in descending order (a faulty variant of sorted)
sorted_reverse(keys) ==
    IF keys = {} THEN <<>>
    ELSE LET m == CHOOSE x \in keys : \A y \in keys \ {x} : StrLess(y, x)
         IN  <<m>> \o sorted_reverse(keys \ {m})

RECURSIVE sorted(_)
\* sorted(keys) of distinct str keys
sorted(keys) ==
    IF keys = {} THEN <<>>
    ELSE LET m == CHOOSE x \in keys : \A y \in keys \ {x} : StrLess(x, y)
         IN  <<m>> \o sorted(keys \ {m})

\* the series of dashboard and of harvest_series: the same statements in both
series_of(ps, pls) ==
    LET by_month == by_month_of(ps, pls, Len(pls))
        months_sorted == sorted(DOMAIN by_month)
    IN  [i \in 1..Len(months_sorted) |->
            [month |-> months_sorted[i], tons |-> Round3(by_month[months_sorted[i]])]]

dashboard ==
    /\ LET series == series_of(plots, plantings)
       IN  resp' = [NoResp EXCEPT
                       !.op = "dashboard",
                       !.series = series,
                       !.kpi = << [farmers |-> Len(farmers), plots |-> Len(plots),
                                   plantings |-> Len(plantings),
                                   next_month_tons |-> IF series # <<>> THEN series[1].tons ELSE 0] >>]
    /\ UNCHANGED <<farmers, plots, plantings, probe>>

harvest_series ==
    /\ resp' = [NoResp EXCEPT !.op = "harvest_series", !.series = series_of(plots, plantings)]
    /\ UNCHANGED <<farmers, plots, plantings, probe>>

(***************************************************************************)
(* plots_page                                                              *)
(***************************************************************************)
\* select(Plot).order_by(Plot.id.desc())
plots_desc == [i \in 1..Len(plots) |-> plots[Len(plots) + 1 - i]]

\* the condition of the comprehension for one plot, evaluated left to right:
\* farmer_map.get(p.farmer_id).name is an AttributeError when the get is None
plot_match(p, like) ==
    LET f == Get(farmers, p.farmer_id)
    IN  IF Contains(like, Lower(p.plot_name)) THEN "keep"
        ELSE IF f = <<>> THEN "AttributeError"
        ELSE IF Contains(like, Lower(f[1].name)) \/ Contains(like, Lower(f[1].code)) THEN "keep"
        ELSE "drop"

plots_page(q) ==
    /\ LET like == Lower(Strip(q))
       IN  IF Strip(q) # <<>> /\ \E i \in 1..Len(plots) : plot_match(plots[i], like) = "AttributeError"
           THEN resp' = [Raise("plots_page", "AttributeError") EXCEPT !.q = q]
           ELSE resp' = [NoResp EXCEPT
                            !.op = "plots_page", !.q = q,
                            !.rows = IF Strip(q) # <<>>
                                     THEN SelectSeq(plots_desc, LAMBDA p : plot_match(p, like) = "keep")
                                     ELSE plots_desc]
    /\ UNCHANGED <<farmers, plots, plantings, probe>>

(***************************************************************************)
(* plantings_page                                                          *)
(***************************************************************************)
DateLeq(a, b) ==
    \/ a.year < b.year
    \/ a.year = b.year /\ a.month < b.month
    \/ a.year = b.year /\ a.month = b.month /\ a.day <= b.day

\* select(Planting).order_by(Planting.plant_date.desc()): every order of the rows
\* with plant_date descending; SQL leaves the order of equal dates open
by_plant_date_desc(pls) ==
    LET n == Len(pls)
        perms == {f \in [1..n -> 1..n] : \A i, j \in 1..n : i # j => f[i] # f[j]}
    IN  { [i \in 1..n |-> pls[f[i]]] :
            f \in {g \in perms : \A i \in 1..(n - 1) :
                                    DateLeq(pls[g[i + 1]].plant_date, pls[g[i]].plant_date)} }

\* the dict appended to rows for one planting
detail_row(pl) ==
    LET p == Get(plots, pl.plot_id)
        f == IF p # <<>> THEN Get(farmers, p[1].farmer_id) ELSE <<>>
        tons == (IF p # <<>> THEN p[1].area_rai ELSE 0) * pl.yield_ton_per_rai
    IN  [pl |-> pl, plot |-> p, farmer |-> f,
         harvest_date |-> harvest_date(pl),
         harvest_month |-> month_key(harvest_date(pl)),
         expected_tons |-> Round3(tons)]

\* the condition without the status line (a faulty variant of text_match)
text_match_no_status(r, like) ==
    \/ Contains(like, Lower(IF r.farmer # <<>> THEN r.farmer[1].name ELSE <<>>))
    \/ Contains(like, Lower(IF r.farmer # <<>> THEN r.farmer[1].code ELSE <<>>))
    \/ Contains(like, Lower(IF r.plot # <<>> THEN r.plot[1].plot_name ELSE <<>>))
    \/ Contains(like, Lower(r.pl.variety))

\* the condition of the free-text comprehension for one row
text_match(r, like) ==
    \/ Contains(like, Lower(IF r.farmer # <<>> THEN r.farmer[1].name ELSE <<>>))
    \/ Contains(like, Lower(IF r.farmer # <<>> THEN r.farmer[1].code ELSE <<>>))
    \/ Contains(like, Lower(IF r.plot # <<>> THEN r.plot[1].plot_name ELSE <<>>))
    \/ Contains(like, Lower(r.pl.variety))
    \/ Contains(like, Lower(r.pl.status))

\* if q.strip(): rows = [r for r in rows if ...]
filter_text(rows, q) ==
    IF Strip(q) # <<>>
    THEN SelectSeq(rows, LAMBDA r : text_match(r, Lower(Strip(q))))
    ELSE rows

\* the month filter stopping at the first row it keeps (a faulty variant of filter_month)
filter_month_first(rows, month) ==
    IF month # <<>>
    THEN LET kept == SelectSeq(rows, LAMBDA r : r.harvest_month = month)
         IN  IF kept = <<>> THEN <<>> ELSE <<kept[1]>>
    ELSE rows

\* the month filter keeping the rows whose key starts with month (a faulty variant of filter_month)
filter_month_prefix(rows, month) ==
    IF month # <<>>
    THEN SelectSeq(rows, LAMBDA r : Len(month) <= Len(r.harvest_month)
                                    /\ SubSeq(r.harvest_month, 1, Len(month)) = month)
    ELSE rows

\* if month: rows = [r for r in rows if r["harvest_month"] == month]
filter_month(rows, month) ==
    IF month # <<>>
    THEN SelectSeq(rows, LAMBDA r : r.harvest_month = month)
    ELSE rows

RECURSIVE SumTons(_)
\* sum(r["expected_tons"] for r in rows), in thousandths
SumTons(rows) == IF rows = <<>> THEN 0 ELSE rows[1].expected_tons + SumTons(Tail(rows))

plantings_page(q, month) ==
    /\ \E ordered \in by_plant_date_desc(plantings) :
          LET rows == filter_month(filter_text([i \in 1..Len(ordered) |-> detail_row(ordered[i])], q), month)
          IN  resp' = [NoResp EXCEPT
                          !.op = "plantings_page", !.q = q, !.month = month,
                          !.rows = rows,
                          !.total_tons = Round3(10 * SumTons(rows))]
    /\ UNCHANGED <<farmers, plots, plantings, probe>>

(***************************************************************************)
(* export_harvest_csv                                                      *)
(***************************************************************************)
\* "month,farmer_code,farmer_name,plot_name,area_rai,variety,plant_date,harvest_date,expected_tons,status"
CsvHeader ==
    << 109, 111, 110, 116, 104, 44, 102, 97, 114, 109, 101, 114, 95, 99, 111, 100, 101, 44, 102, 97,
       114, 109, 101, 114, 95, 110, 97, 109, 101, 44, 112, 108, 111, 116, 95, 110, 97, 109, 101, 44,
       97, 114, 101, 97, 95, 114, 97, 105, 44, 118, 97, 114, 105, 101, 116, 121, 44, 112, 108, 97,
       110, 116, 95, 100, 97, 116, 101, 44, 104, 97, 114, 118, 101, 115, 116, 95, 100, 97, 116, 101,
       44, 101, 120, 112, 101, 99, 116, 101, 100, 95, 116, 111, 110, 115, 44, 115, 116, 97, 116, 117,
       115 >>

\* the line with the tons at full precision (a faulty variant of csv_line)
csv_line_unrounded(pl) ==
    LET p == Get(plots, pl.plot_id)
        f == IF p # <<>> THEN Get(farmers, p[1].farmer_id) ELSE <<>>
        tons == (IF p # <<>> THEN p[1].area_rai ELSE 0) * pl.yield_ton_per_rai
    IN  Join(<<44>>,
             << month_key(harvest_date(pl)),
                IF f # <<>> THEN f[1].code ELSE <<>>,
                IF f # <<>> THEN f[1].name ELSE <<>>,
                IF p # <<>> THEN p[1].plot_name ELSE <<>>,
                IF p # <<>> THEN FloatStr(p[1].area_rai, 2) ELSE <<48>>,
                pl.variety,
                isoformat(pl.plant_date),
                isoformat(harvest_date(pl)),
                FloatStr(tons, 4),
                pl.status >>)

\* the f-string appended to lines for one planting
csv_line(pl) ==
    LET p == Get(plots, pl.plot_id)
        f == IF p # <<>> THEN Get(farmers, p[1].farmer_id) ELSE <<>>
        tons == (IF p # <<>> THEN p[1].area_rai ELSE 0) * pl.yield_ton_per_rai
    IN  Join(<<44>>,
             << month_key(harvest_date(pl)),
                IF f # <<>> THEN f[1].code ELSE <<>>,
                IF f # <<>> THEN f[1].name ELSE <<>>,
                IF p # <<>> THEN p[1].plot_name ELSE <<>>,
                IF p # <<>> THEN FloatStr(p[1].area_rai, 2) ELSE <<48>>,
                pl.variety,
                isoformat(pl.plant_date),
                isoformat(harvest_date(pl)),
                FloatStr(Round3(tons), 3),
                pl.status >>)

\* csv_text = "\n".join(lines)
csv_text ==
    LET lines == <<CsvHeader>> \o [i \in 1..Len(plantings) |-> csv_line(plantings[i])]
    IN  Join(<<10>>, lines)

export_harvest_csv ==
    /\ resp' = [NoResp EXCEPT !.op = "export_harvest_csv", !.csv = csv_text]
    /\ UNCHANGED <<farmers, plots, plantings, probe>>

(***************************************************************************)
(* The specification: the handlers, from an empty database.                *)
(***************************************************************************)
Next ==
    \/ \E form \in FarmerForms : farmer_create(form)
    \/ \E id \in FarmerIds, form \in FarmerForms : farmer_update(id, form)
    \/ \E id \in FarmerIds : farmer_delete(id)
    \/ \E form \in PlotForms : plot_create(form)
    \/ \E id \in PlotIds, form \in PlotForms : plot_update(id, form)
    \/ \E id \in PlotIds : plot_delete(id)
    \/ \E form \in PlantingForms : planting_create(form)
    \/ \E id \in PlantingIds, form \in PlantingForms : planting_update(id, form)
    \/ \E id \in PlantingIds : planting_delete(id)
    \/ dashboard
    \/ harvest_series
    \/ \E q \in SpecQueries : plots_page(q)
    \/ \E q \in SpecQueries, month \in SpecMonths : plantings_page(q, month)
    \/ export_harvest_csv

Spec == Init /\ [][Next]_vars

\* the create, update and delete handlers alone, from the empty database
NextCrud ==
    \/ \E form \in FarmerForms : farmer_create(form)
    \/ \E id \in FarmerIds, form \in FarmerForms : farmer_update(id, form)
    \/ \E id \in FarmerIds : farmer_delete(id)
    \/ \E form \in PlotForms : plot_create(form)
    \/ \E id \in PlotIds, form \in PlotForms : plot_update(id, form)
    \/ \E id \in PlotIds : plot_delete(id)
    \/ \E form \in PlantingForms : planting_create(form)
    \/ \E id \in PlantingIds, form \in PlantingForms : planting_update(id, form)
    \/ \E id \in PlantingIds : planting_delete(id)

SpecCrud == Init /\ [][NextCrud]_vars

(***************************************************************************)
(* The handlers as functions of one snapshot of the tables: the snapshot   *)
(* is drawn from the contents the CRUD handlers can store.                 *)
(***************************************************************************)
\* the plantings of a snapshot: PlantingForms and one harvested in an earlier month
SnapshotForms ==
    PlantingForms \cup
    { [plot_id |-> 1, variety |-> <<83, 105, 108, 107>>, status |-> <<100, 111, 110, 101>>,  \* "Silk", "done"
       plant_date |-> [year |-> 2023, month |-> 11, day |-> 20], days_to_harvest |-> 45,
       yield_ton_per_rai |-> 150] }

\* the tables with at most one Farmer, one Plot of Farmer 1 and n Plantings, ids from 1
Snapshot(n) ==
    /\ farmers \in {<<>>} \cup {<<FarmerRow(1, form)>> : form \in FarmerForms}
    /\ plots \in {<<>>} \cup {<<PlotRow(1, form)>> : form \in {x \in PlotForms : x.farmer_id = 1}}
    /\ plantings \in UNION { { [i \in 1..k |-> PlantingRow(i, forms[i])] : forms \in [1..k -> SnapshotForms] }
                             : k \in 0..n }
    /\ resp = NoResp
    /\ probe = <<>>

\* one request on a snapshot: a page of plantings, the series or the export
InitQuery == Snapshot(MaxRows)

NextQuery ==
    /\ resp.op = "none"
    /\ \/ \E q \in Queries, month \in Months : plantings_page(q, month)
       \/ dashboard
       \/ harvest_series
       \/ export_harvest_csv

SpecQuery == InitQuery /\ [][NextQuery]_vars

\* one request for the series or the export on a larger snapshot
InitTotals == Snapshot(MaxSnapshot)

NextTotals ==
    /\ resp.op = "none"
    /\ \/ dashboard
       \/ harvest_series
       \/ export_harvest_csv

SpecTotals == InitTotals /\ [][NextTotals]_vars

(***************************************************************************)
(* month_key as a function of a date: applied to two dates.                *)
(***************************************************************************)
ProbeDates ==
    { [year |-> y, month |-> m, day |-> d] :
        y \in {1, 999, 1000, 2024, 9999}, m \in {1, 2, 9, 10, 12}, d \in {1, 28} }

InitMonthKey ==
    /\ farmers = <<>>
    /\ plots = <<>>
    /\ plantings = <<>>
    /\ resp = NoResp
    /\ probe \in { <<[d1 |-> a, d2 |-> b, k1 |-> <<>>, k2 |-> <<>>]>> : a, b \in ProbeDates }

apply_month_key ==
    /\ probe # <<>>
    /\ probe[1].k1 = <<>>
    /\ probe' = << [probe[1] EXCEPT !.k1 = month_key(probe[1].d1), !.k2 = month_key(probe[1].d2)] >>
    /\ UNCHANGED <<farmers, plots, plantings, resp>>

SpecMonthKey == InitMonthKey /\ [][apply_month_key]_vars

(***************************************************************************)
(* What the claims speak of, stated on the tables and on the response.     *)
(***************************************************************************)
RECURSIVE SplitOn(_, _)
\* the pieces of text between the occurrences of the character c
SplitOn(text, c) ==
    IF \A i \in 1..Len(text) : text[i] # c THEN <<text>>
    ELSE LET i == CHOOSE k \in 1..Len(text) : text[k] = c /\ \A j \in 1..(k - 1) : text[j] # c
         IN  <<SubSeq(text, 1, i - 1)>> \o SplitOn(SubSeq(text, i + 1, Len(text)), c)

RECURSIVE DigitsVal(_)
\* the number a sequence of decimal digits writes
DigitsVal(ds) == IF ds = <<>> THEN 0 ELSE 10 * DigitsVal(SubSeq(ds, 1, Len(ds) - 1)) + (ds[Len(ds)] - 48)

\* the thousandths a decimal text "i" or "i.f" writes, -1 when f has more than 3 digits
ParseMilli(text) ==
    LET parts == SplitOn(text, 46)
        frac  == IF Len(parts) > 1 THEN parts[2] ELSE <<>>
    IN  IF Len(frac) > 3 THEN 0 - 1
        ELSE 1000 * DigitsVal(parts[1]) + DigitsVal(frac) * 10 ^ (3 - Len(frac))

\* the lines of the exported text, and the fields of one line
CsvLines == SplitOn(resp.csv, 10)

CsvFields(line) == SplitOn(line, 44)

\* the Plot a Planting refers to exists / the Farmer of that Plot exists
Resolved(pl) == \E i \in 1..Len(plots) : plots[i].id = pl.plot_id

PlotOf(pl) == plots[CHOOSE i \in 1..Len(plots) : plots[i].id = pl.plot_id]

HasFarmer(pl) == Resolved(pl) /\ \E i \in 1..Len(farmers) : farmers[i].id = PlotOf(pl).farmer_id

FarmerOf(pl) == farmers[CHOOSE i \in 1..Len(farmers) : farmers[i].id = PlotOf(pl).farmer_id]

\* area x yield rate of a Planting at full precision (ten-thousandths), 0 when unresolved
FullTons(pl) == IF Resolved(pl) THEN PlotOf(pl).area_rai * pl.yield_ton_per_rai ELSE 0

\* the harvest month key of a Planting
HarvestMonth(pl) == month_key(AddDays(pl.plant_date, pl.days_to_harvest))

RECURSIVE SumFull(_)
\* the full-precision sum of area x yield rate over a set of Plantings
SumFull(pls) ==
    IF pls = {} THEN 0
    ELSE LET pl == CHOOSE x \in pls : TRUE IN FullTons(pl) + SumFull(pls \ {pl})

\* the Plantings harvested in month m
InMonth(m) == {pl \in Range(plantings) : HarvestMonth(pl) = m}

\* no filter is in force in a plantings_page response
Unfiltered == Strip(resp.q) = <<>> /\ resp.month = <<>>

\* C1: a Planting whose plot_id matches no Plot is never dropped.  With no
\* filter in force plantings_page holds exactly one detail row for it, with
\* expected_tons 0 and no plot and no farmer; export_harvest_csv holds its line,
\* one line per Planting, with blank farmer code, farmer name and plot name and
\* expected_tons 0; and the series of harvest_series and of dashboard holds a
\* bucket for its harvest month, to which it adds 0.
C1_DanglingPlantingKept ==
    \A i \in 1..Len(plantings) :
        LET pl == plantings[i] IN
        ~Resolved(pl) =>
            /\ (resp.op = "plantings_page" /\ Unfiltered) =>
                  /\ Cardinality({j \in 1..Len(resp.rows) : resp.rows[j].pl = pl}) = 1
                  /\ \A j \in 1..Len(resp.rows) :
                        resp.rows[j].pl = pl =>
                            /\ resp.rows[j].expected_tons = 0
                            /\ resp.rows[j].plot = <<>>
                            /\ resp.rows[j].farmer = <<>>
                            /\ resp.rows[j].harvest_month = HarvestMonth(pl)
            /\ resp.op = "export_harvest_csv" =>
                  LET lines == CsvLines
                      fields == CsvFields(lines[i + 1])
                  IN  /\ Len(lines) = Len(plantings) + 1
                      /\ Len(fields) = 10
                      /\ fields[1] = HarvestMonth(pl)
                      /\ fields[2] = <<>> /\ fields[3] = <<>> /\ fields[4] = <<>>
                      /\ fields[6] = pl.variety
                      /\ ParseMilli(fields[9]) = 0
            /\ resp.op \in {"harvest_series", "dashboard"} =>
                  /\ Cardinality({k \in 1..Len(resp.series) : resp.series[k].month = HarvestMonth(pl)}) = 1
                  /\ \A k \in 1..Len(resp.series) :
                        resp.series[k].month = HarvestMonth(pl) =>
                            resp.series[k].tons = Round3(SumFull(InMonth(HarvestMonth(pl)) \ {pl}))

\* C1 witness: an export of a Planting without a Plot beside one that has a Plot and a yield
C1_Witness ==
    /\ resp.op = "export_harvest_csv"
    /\ \E i, j \in 1..Len(plantings) :
          /\ ~Resolved(plantings[i])
          /\ Resolved(plantings[j]) /\ FullTons(plantings[j]) > 0


\* C2 (as claimed): the total_tons plantings_page emits is the full-precision sum
\* of area x yield rate over the retained rows, rounded once to 3 decimals.
C2_TotalRoundedOnce ==
    resp.op = "plantings_page" =>
        resp.total_tons = Round3(SumFull({resp.rows[j].pl : j \in 1..Len(resp.rows)}))

\* the expected_tons values the export emits, summed (thousandths): the field
\* before the last of every line after the header
ExportTotal(text) ==
    LET lines == SplitOn(text, 10)
        tons(i) == LET fields == CsvFields(lines[i]) IN ParseMilli(fields[Len(fields) - 1])
        sum[i \in 1..Len(lines)] == IF i = 1 THEN 0 ELSE sum[i - 1] + tons(i)
    IN  sum[Len(lines)]

\* the tons of all month buckets of a series, summed (thousandths)
SeriesTotal(series) ==
    LET sum[k \in 0..Len(series)] == IF k = 0 THEN 0 ELSE sum[k - 1] + series[k].tons
    IN  sum[Len(series)]

\* the export and the series of one snapshot: the one in the response, the other
\* as its handler computes it from the same tables
SnapshotExport == IF resp.op = "export_harvest_csv" THEN resp.csv ELSE csv_text

SnapshotSeries == IF resp.op = "harvest_series" THEN resp.series ELSE series_of(plots, plantings)

Abs(x) == IF x < 0 THEN 0 - x ELSE x

RECURSIVE SumRounded(_)
\* the sum over a set of Plantings of area x yield rate rounded to 3 decimals each
SumRounded(pls) ==
    IF pls = {} THEN 0
    ELSE LET pl == CHOOSE x \in pls : TRUE IN Round3(FullTons(pl)) + SumRounded(pls \ {pl})

RECURSIVE SumBuckets(_)
\* the sum over a set of months of the month's full-precision total rounded to 3 decimals
SumBuckets(ms) ==
    IF ms = {} THEN 0
    ELSE LET m == CHOOSE x \in ms : TRUE IN Round3(SumFull(InMonth(m))) + SumBuckets(ms \ {m})

\* C3 (as claimed): the grand total of the expected_tons of the export rows and
\* the grand total of the series buckets of the same snapshot differ by no more
\* than one rounding step, 0.001.
C3_TotalsWithinOneStep ==
    resp.op \in {"export_harvest_csv", "harvest_series"} =>
        LET export == ExportTotal(SnapshotExport)
            series == SeriesTotal(SnapshotSeries)
        IN  Abs(export - series) <= 1

\* C3 (amended): every Planting is counted exactly once in each total - the export
\* total is the sum of the per-planting values rounded each, the series total the
\* sum of the per-month full-precision totals rounded each - and the two totals
\* differ by no more than one rounding step, 0.001, per Planting.
C3_TotalsWithinOneStepPerPlanting ==
    resp.op \in {"export_harvest_csv", "harvest_series"} =>
        LET export == ExportTotal(SnapshotExport)
            series == SeriesTotal(SnapshotSeries)
        IN  /\ export = SumRounded(Range(plantings))
            /\ series = SumBuckets({HarvestMonth(pl) : pl \in Range(plantings)})
            /\ Abs(export - series) <= Len(plantings)

\* C3 witness: an export whose total differs from the series total, with a
\* Planting without a Plot and two Plantings in one month
C3_Witness ==
    /\ resp.op = "export_harvest_csv"
    /\ ExportTotal(resp.csv) # SeriesTotal(series_of(plots, plantings))
    /\ ExportTotal(resp.csv) > 0
    /\ \E i \in 1..Len(plantings) : ~Resolved(plantings[i])


\* the detail rows of the page before any filter, in table order
UnfilteredRows == [i \in 1..Len(plantings) |-> detail_row(plantings[i])]

\* C4: for the q and the month of every plantings_page request, the free-text
\* filter followed by the month filter retains the same set of rows as the month
\* filter followed by the free-text filter; the rows the page retains are that
\* set, and each of them is a row of the unfiltered page, unchanged.
C4_FilterOrderIndependent ==
    resp.op = "plantings_page" =>
        LET all == UnfilteredRows
            text_then_month == Range(filter_month(filter_text(all, resp.q), resp.month))
            month_then_text == Range(filter_text(filter_month(all, resp.month), resp.q))
        IN  /\ text_then_month = month_then_text
            /\ Range(resp.rows) = month_then_text
            /\ Range(resp.rows) \subseteq Range(all)
            /\ Len(resp.rows) = Cardinality(Range(resp.rows))

\* C4 witness: a page where both filters are in force, a row is retained and the
\* month filter drops a row the free-text filter keeps
C4_Witness ==
    /\ resp.op = "plantings_page"
    /\ Strip(resp.q) # <<>> /\ resp.month # <<>>
    /\ resp.rows # <<>>
    /\ \E r \in Range(filter_text(UnfilteredRows, resp.q)) : r \notin Range(resp.rows)

\* the month keys occurring among the Plantings
HarvestMonths == {HarvestMonth(pl) : pl \in Range(plantings)}

\* C5: the series of harvest_series and of dashboard has exactly one entry per
\* harvest month key occurring among the Plantings, in strictly ascending key
\* order, and the tons of an entry is the full-precision sum of (resolved plot
\* area, or 0) x yield rate over the Plantings of its month, rounded once to 3
\* decimals.
C5_SeriesPerMonthSortedSummed ==
    resp.op \in {"harvest_series", "dashboard"} =>
        /\ {resp.series[k].month : k \in 1..Len(resp.series)} = HarvestMonths
        /\ Len(resp.series) = Cardinality(HarvestMonths)
        /\ \A k \in 1..(Len(resp.series) - 1) : StrLess(resp.series[k].month, resp.series[k + 1].month)
        /\ \A k \in 1..Len(resp.series) :
              resp.series[k].tons = Round3(SumFull(InMonth(resp.series[k].month)))

\* C5 witness: a series with two months, entered out of order, one of them the
\* sum of two Plantings with a yield
C5_Witness ==
    /\ resp.op = "harvest_series"
    /\ Len(resp.series) >= 2
    /\ \E i, j \in 1..Len(plantings) :
          /\ i < j
          /\ StrLess(HarvestMonth(plantings[j]), HarvestMonth(plantings[i]))
    /\ \E i, j \in 1..Len(plantings) :
          /\ i # j
          /\ HarvestMonth(plantings[i]) = HarvestMonth(plantings[j])
          /\ FullTons(plantings[i]) > 0 /\ FullTons(plantings[j]) > 0
          /\ FullTons(plantings[i]) # FullTons(plantings[j])

\* C6 (as claimed): a search over joined fields raises nothing, whatever
\* references dangle.
C6_SearchNeverRaises ==
    resp.op \in {"plots_page", "plantings_page"} => resp.raised = ""


\* the Plantings of the rows a page retains
Retained == {resp.rows[j].pl : j \in 1..Len(resp.rows)}

\* C7: with month empty the month filter retains every row; with month non-empty
\* it retains a row if and only if the row's harvest month key equals month
\* exactly; a month that is the key of no row raises nothing and leaves no row
\* and a total_tons of 0.
C7_MonthFilterExact ==
    resp.op = "plantings_page" =>
        /\ resp.raised = ""
        /\ Strip(resp.q) = <<>> =>
              Retained = IF resp.month = <<>> THEN Range(plantings)
                         ELSE {pl \in Range(plantings) : HarvestMonth(pl) = resp.month}
        /\ resp.month # <<>> => \A pl \in Retained : HarvestMonth(pl) = resp.month
        /\ (resp.month # <<>> /\ resp.month \notin HarvestMonths) =>
              resp.rows = <<>> /\ resp.total_tons = 0

\* C7 witness: a page asked for a month that is a proper prefix of a row's key
C7_Witness ==
    /\ resp.op = "plantings_page"
    /\ Strip(resp.q) = <<>>
    /\ resp.month # <<>>
    /\ \E pl \in Range(plantings) :
          /\ Len(resp.month) < Len(HarvestMonth(pl))
          /\ SubSeq(HarvestMonth(pl), 1, Len(resp.month)) = resp.month
    /\ resp.rows = <<>>

\* the five fields the free-text filter searches, blank for an unresolved entity
SearchFields(pl) ==
    { IF HasFarmer(pl) THEN FarmerOf(pl).name ELSE <<>>,
      IF HasFarmer(pl) THEN FarmerOf(pl).code ELSE <<>>,
      IF Resolved(pl) THEN PlotOf(pl).plot_name ELSE <<>>,
      pl.variety,
      pl.status }

\* needle occurs in hay: hay is some text, needle, some text
Occurs(needle, hay) ==
    \E a, b \in 0..Len(hay) :
        /\ a + Len(needle) + b = Len(hay)
        /\ \A i \in 1..Len(needle) : hay[a + i] = needle[i]

\* C8: with q empty after trimming the free-text filter retains every row;
\* otherwise it retains a row if and only if the trimmed, lower-cased q occurs in
\* the lower-cased farmer name, farmer code, plot name, variety or status of the
\* row; and applying the filter again to the retained rows retains them all.
C8_TextFilterSubstring ==
    resp.op = "plantings_page" =>
        /\ resp.month = <<>> =>
              Retained = IF Strip(resp.q) = <<>> THEN Range(plantings)
                         ELSE {pl \in Range(plantings) :
                                  \E fld \in SearchFields(pl) : Occurs(Lower(Strip(resp.q)), Lower(fld))}
        /\ filter_text(resp.rows, resp.q) = resp.rows

\* C8 witness: a query in capitals and spaces that keeps a row by one field only
\* and drops a row whose plot is unresolved
C8_Witness ==
    /\ resp.op = "plantings_page"
    /\ resp.month = <<>>
    /\ Strip(resp.q) # resp.q /\ Lower(resp.q) # resp.q
    /\ \E pl \in Retained :
          Cardinality({fld \in SearchFields(pl) : Occurs(Lower(Strip(resp.q)), Lower(fld))}) = 1
    /\ \E pl \in Range(plantings) \ Retained : ~Resolved(pl)


\* the date a text YYYY-MM-DD of 4, 2 and 2 digits writes, <<>> for any other text
ParseIso(text) ==
    LET parts == SplitOn(text, 45)
    IN  IF Len(parts) = 3 /\ Len(parts[1]) = 4 /\ Len(parts[2]) = 2 /\ Len(parts[3]) = 2
        THEN << [year |-> DigitsVal(parts[1]), month |-> DigitsVal(parts[2]), day |-> DigitsVal(parts[3])] >>
        ELSE <<>>

\* the text fields of the line of a Planting, blank for an unresolved entity
FarmerCode(pl) == IF HasFarmer(pl) THEN FarmerOf(pl).code ELSE <<>>

FarmerName(pl) == IF HasFarmer(pl) THEN FarmerOf(pl).name ELSE <<>>

PlotName(pl) == IF Resolved(pl) THEN PlotOf(pl).plot_name ELSE <<>>

\* the commas inside the text fields of the line of a Planting
Commas(text) == Cardinality({i \in 1..Len(text) : text[i] = 44})

FieldCommas(pl) ==
    Commas(FarmerCode(pl)) + Commas(FarmerName(pl)) + Commas(PlotName(pl))
        + Commas(pl.variety) + Commas(pl.status)

\* C9: the exported text is the header line followed by exactly one line per
\* Planting, in the order of the planting list, with no plantings the header
\* alone.  The fields of a line are joined by commas unquoted: a line has 10
\* fields and one more for every comma inside a text field, and a line without
\* such a comma reads month, farmer code, farmer name, plot name, area, variety,
\* plant date, harvest date, expected tons rounded to 3 decimals, status.
C9_ExportOneLinePerPlanting ==
    resp.op = "export_harvest_csv" =>
        LET lines == CsvLines IN
        /\ resp.raised = ""
        /\ Len(lines) = Len(plantings) + 1
        /\ lines[1] = CsvHeader
        /\ Len(CsvFields(lines[1])) = 10
        /\ \A i \in 1..Len(plantings) :
              LET pl == plantings[i]
                  fields == CsvFields(lines[i + 1])
                  n == Len(fields)
              IN  /\ n = 10 + FieldCommas(pl)
                  /\ fields[1] = HarvestMonth(pl)
                  /\ fields[n] = pl.status
                  /\ ParseMilli(fields[n - 1]) = Round3(FullTons(pl))
                  /\ ParseIso(fields[n - 2]) = <<AddDays(pl.plant_date, pl.days_to_harvest)>>
                  /\ ParseIso(fields[n - 3]) = <<pl.plant_date>>
                  /\ fields[n - 4] = pl.variety
                  /\ n = 10 =>
                        /\ fields[2] = FarmerCode(pl)
                        /\ fields[3] = FarmerName(pl)
                        /\ fields[4] = PlotName(pl)
                        /\ ParseMilli(fields[5]) = IF Resolved(pl) THEN 10 * PlotOf(pl).area_rai ELSE 0

\* C9 witness: an export of three Plantings of one month, the first two apart in
\* yield, with a Farmer and a Plot, whose tons has a third decimal to round
C9_Witness ==
    /\ resp.op = "export_harvest_csv"
    /\ Len(plantings) = 3
    /\ HarvestMonths = {HarvestMonth(plantings[1])}
    /\ HasFarmer(plantings[1]) /\ FieldCommas(plantings[1]) = 0
    /\ FullTons(plantings[1]) > FullTons(plantings[2])
    /\ FullTons(plantings[2]) > 0
    /\ FullTons(plantings[2]) # 10 * Round3(FullTons(plantings[2]))

\* (year, month) of a before that of b
MonthBefore(a, b) == a.year < b.year \/ (a.year = b.year /\ a.month < b.month)

\* C10: month_key gives every date a key of 7 characters, YYYY-MM; two dates get
\* the same key if and only if they have the same year and the same month, and
\* the key of one is below the key of the other, as strings, if and only if its
\* (year, month) is the earlier.
C10_MonthKeyOrder ==
    (probe # <<>> /\ probe[1].k1 # <<>>) =>
        LET d1 == probe[1].d1
            d2 == probe[1].d2
            k1 == probe[1].k1
            k2 == probe[1].k2
        IN  /\ Len(k1) = 7 /\ Len(k2) = 7
            /\ k1[5] = 45
            /\ \A i \in {1, 2, 3, 4, 6, 7} : k1[i] \in 48..57
            /\ DigitsVal(SubSeq(k1, 1, 4)) = d1.year /\ DigitsVal(SubSeq(k1, 6, 7)) = d1.month
            /\ (k1 = k2) <=> (d1.year = d2.year /\ d1.month = d2.month)
            /\ StrLess(k1, k2) <=> MonthBefore(d1, d2)

\* C10 witness: the keys of a date in month 10 of year 999 and of a date in
\* month 9 of year 1000, where only the zero padding keeps the order
C10_Witness ==
    /\ probe # <<>>
    /\ probe[1].k1 # <<>>
    /\ probe[1].d1.year = 999 /\ probe[1].d1.month = 10
    /\ probe[1].d2.year = 1000 /\ probe[1].d2.month = 9
    /\ StrLess(probe[1].k1, probe[1].k2)

\* the rows of a table, as a set
Rows(table) == {table[i] : i \in 1..Len(table)}

\* after is before without the row of the given id, every other row kept as it
\* was and in its place; before itself when no row has that id
RemovedOnly(before, after, id) ==
    /\ Rows(after) = {r \in Rows(before) : r.id # id}
    /\ Len(after) = Cardinality(Rows(after))
    /\ \A i, j \in 1..Len(after) : i < j => after[i].id < after[j].id
    /\ (\A r \in Rows(before) : r.id # id) => after = before

\* C11: after any sequence of create, update and delete requests, a
\* farmer_delete, plot_delete or planting_delete removes at most the one row
\* of its own table that has the given id and leaves every other Farmer, Plot
\* and Planting as it was: the two other tables are unchanged, so the Plots of
\* a deleted Farmer and the Plantings of a deleted Plot stay stored with their
\* dangling reference; a delete of an id that no row has changes no table; and
\* the request never raises, it is answered by the redirect to its list page.
C11_DeleteRemovesOnlyTheRow ==
    [][ /\ resp'.op = "farmer_delete" =>
              /\ \E id \in FarmerIds : farmer_delete(id)
              /\ \A id \in FarmerIds : farmer_delete(id) =>
                    /\ RemovedOnly(farmers, farmers', id)
                    /\ plots' = plots /\ plantings' = plantings
                    /\ resp'.raised = "" /\ resp'.location = "/farmers"
        /\ resp'.op = "plot_delete" =>
              /\ \E id \in PlotIds : plot_delete(id)
              /\ \A id \in PlotIds : plot_delete(id) =>
                    /\ RemovedOnly(plots, plots', id)
                    /\ farmers' = farmers /\ plantings' = plantings
                    /\ resp'.raised = "" /\ resp'.location = "/plots"
        /\ resp'.op = "planting_delete" =>
              /\ \E id \in PlantingIds : planting_delete(id)
              /\ \A id \in PlantingIds : planting_delete(id) =>
                    /\ RemovedOnly(plantings, plantings', id)
                    /\ farmers' = farmers /\ plots' = plots
                    /\ resp'.raised = "" /\ resp'.location = "/plantings" ]_vars

\* C11 witness: farmer_delete has answered, no Farmer is stored, and the Plot
\* of Farmer 1 and the Planting of Plot 1 are still stored
C11_Witness ==
    /\ resp.op = "farmer_delete" /\ resp.raised = ""
    /\ farmers = <<>>
    /\ \E i \in 1..Len(plots) : plots[i].farmer_id = 1 /\ plots[i].id = 1
    /\ \E i \in 1..Len(plantings) : plantings[i].plot_id = 1

====
